---- MODULE Spec2Model ----
(***************************************************************************)
(* Model of src/transcribe_server.py: the MCP transcription server.        *)
(*                                                                         *)
(* The process loads the Whisper model, makes sure the transcripts         *)
(* directory exists, and then serves three tools one call at a time:       *)
(* transcribe_lesson, transcribe_video and list_transcripts.               *)
(*                                                                         *)
(* Strings are sequences of tokens (each token a TLA+ string), so that     *)
(* f-string concatenation, path joining and slicing are computed.          *)
(***************************************************************************)
EXTENDS Naturals, Sequences, FiniteSets

VARIABLES
    phase,      \* "boot" | "loaded" | "ready" | "serving": module top level, lines 15-24, 125-126
    model,      \* the global `model`: [handle, loads]
    dirs,       \* directories that exist in the file system
    fs,         \* regular files under the transcripts directory: path -> [data, mtime]
    clock,      \* file-system time in minutes, stamps every modification
    today,      \* the calendar day datetime.now() reports
    pc,         \* "idle", or the position of the tool call being served, "done" once it returned
    args,       \* arguments of the call being served
    local,      \* locals of transcribe_lesson: transcript_text, transcript_path, date
    ran,        \* stages the current transcribe_lesson call has executed, in order
    failed,     \* stage of the current call that failed ("none" when none did)
    result,     \* outcome of the last finished call
    fsBefore,   \* the files as they were when the current call started
    log,        \* successful transcribe_lesson saves, oldest first
    calls       \* number of tool calls started

vars == <<phase, model, dirs, fs, clock, today, pc, args, local, ran,
          failed, result, fsBefore, log, calls>>

----------------------------------------------------------------------------
(* Bounds of the model *)

MaxCalls == 2       \* tool calls per run
MaxOld   == 10      \* transcript files already in the directory at start
MaxDay   == 2       \* calendar days the run may span

(* Program constants *)

ListLimit  == 10    \* transcript_files[:10]
PreviewLen == 200   \* transcript_text[:200]

----------------------------------------------------------------------------
(* Sequence helpers *)

Min(a, b) == IF a <= b THEN a ELSE b

\* s[:n]
Slice(s, n) == SubSeq(s, 1, Min(n, Len(s)))

Contains(s, tok) == \E i \in 1..Len(s) : s[i] = tok

\* position of the last path separator in p, 0 when there is none
LastSep(p) ==
    IF Contains(p, "/")
    THEN CHOOSE i \in 1..Len(p) : p[i] = "/" /\ \A j \in (i+1)..Len(p) : p[j] # "/"
    ELSE 0

\* Path.parent and Path.name
Parent(p) == SubSeq(p, 1, LastSep(p) - 1)
Name(p)   == SubSeq(p, LastSep(p) + 1, Len(p))

\* str.join: " ".join(segment.text for segment in segments)
RECURSIVE JoinSp(_)
JoinSp(segs) ==
    IF Len(segs) = 0 THEN <<>>
    ELSE IF Len(segs) = 1 THEN segs[1]
    ELSE segs[1] \o <<" ">> \o JoinSp(Tail(segs))

ProperPrefixes(s) == { SubSeq(s, 1, n) : n \in 0..(Len(s) - 1) }

----------------------------------------------------------------------------
(* The environment: inputs the tools are called with *)

\* media paths a caller may pass; the first two exist on disk
ExistingMedia == { <<"in1", ".mp4">>, <<"in2", ".mp4">> }
MediaPaths    == ExistingMedia \cup { <<"gone", ".mp4">> }

\* (student_name, lesson_topic) a caller may pass; "" is the default topic
Lessons == { << <<"A">>, <<>> >>, << <<"A">>, <<"B">> >>,
             << <<"A", "_", "B">>, <<>> >>, << <<"s", "/", "A">>, <<>> >> }

\* what the model yields for a recording: the texts of its segments
SegmentLists == { << <<"x">> >>, << <<"x">>, <<"y">> >> }

\* str(e) of the exceptions the model or the file system may raise
Faults == { "[Errno 28] No space left on device" }

\* os.path.exists(file_path)
Exists(file_path) == file_path \in ExistingMedia

\* datetime.now().strftime("%Y%m%d")
DateStr(day) == << <<"20261105", "20261106", "20261107", "20261108">>[day] >>

----------------------------------------------------------------------------
(* Module top level *)

TRANSCRIPTS_DIR == <<"transcripts">>

\* Path.__truediv__
PathJoin(dir, name) == dir \o <<"/">> \o name

\* WhisperModel("medium", device="cpu", compute_type="int8")
WhisperModel(m) == [handle |-> "medium-cpu-int8", loads |-> m.loads + 1]

\* files left in the directory by earlier runs
OldName(i) == << <<"o1", "o2", "o3", "o4", "o5", "o6", "o7", "o8", "o9", "o10",
                   "o11", "o12">>[i], ".txt" >>
OldFiles(n) ==
    [ p \in { PathJoin(TRANSCRIPTS_DIR, OldName(i)) : i \in 1..n }
        |-> [data |-> <<"old">>,
             mtime |-> CHOOSE i \in 1..n : p = PathJoin(TRANSCRIPTS_DIR, OldName(i))] ]

\* a subdirectory an earlier user may have left in the transcripts directory
OldSubdir == PathJoin(TRANSCRIPTS_DIR, DateStr(1) \o <<"_", "s">>)

NoResult == [kind |-> "none"]
NoLocal  == [text |-> <<>>, path |-> <<>>, day |-> 0]
NoArgs   == [tool |-> "none"]

Init ==
    /\ phase = "boot"
    /\ model = [handle |-> "unloaded", loads |-> 0]
    /\ \/ /\ dirs = {}                              \* first run: no directory yet
          /\ fs = OldFiles(0)
       \/ /\ dirs = {TRANSCRIPTS_DIR, OldSubdir}        \* a directory left by earlier use
          /\ fs = OldFiles(MaxOld)
    /\ clock = MaxOld + 1
    /\ today = 1
    /\ pc = "idle"
    /\ args = NoArgs
    /\ local = NoLocal
    /\ ran = <<>>
    /\ failed = "none"
    /\ result = NoResult
    /\ fsBefore = fs
    /\ log = <<>>
    /\ calls = 0

----------------------------------------------------------------------------
(* Start-up: lines 15-24 and 125-126 *)

\* model = WhisperModel(...)
LoadModel ==
    /\ phase = "boot"
    /\ phase' = "loaded"
    /\ model' = WhisperModel(model)
    /\ UNCHANGED <<dirs, fs, clock, today, pc, args, local, ran, failed, result,
                   fsBefore, log, calls>>

\* TRANSCRIPTS_DIR.mkdir(exist_ok=True)
MkDir ==
    /\ phase = "loaded"
    /\ phase' = "ready"
    /\ dirs' = dirs \cup {TRANSCRIPTS_DIR}
    /\ UNCHANGED <<model, fs, clock, today, pc, args, local, ran, failed, result,
                   fsBefore, log, calls>>

\* mcp.run()
Run ==
    /\ phase = "ready"
    /\ phase' = "serving"
    /\ UNCHANGED <<model, dirs, fs, clock, today, pc, args, local, ran, failed,
                   result, fsBefore, log, calls>>

\* midnight passes between two calls (a call reads the date once, line 52)
Tick ==
    /\ phase = "serving"
    /\ pc = "idle"
    /\ today < MaxDay
    /\ today' = today + 1
    /\ UNCHANGED <<phase, model, dirs, fs, clock, pc, args, local, ran, failed,
                   result, fsBefore, log, calls>>

----------------------------------------------------------------------------
(* Values the tools return *)

Returned(value) == [kind |-> "returned", value |-> value]
Raised(e)       == [kind |-> "raised", value |-> <<e>>]

\* f"Error: File not found at {file_path}"
FileNotFoundMsg(file_path) == <<"Error: File not found at ">> \o file_path

\* f"Error during transcription: {str(e)}"
TranscriptionErrorMsg(e) == <<"Error during transcription: ", e>>

\* the f-string of lines 61-71
SuccessMsg(a, path, text) ==
    <<"Transcription complete!", "Saved to: ">> \o path
      \o <<"Student: ">> \o a.student_name
      \o <<"Topic: ">>
      \o (IF a.lesson_topic # <<>> THEN a.lesson_topic ELSE <<"Not specified">>)
      \o <<"python -m src.cli process ">> \o path
      \o <<"Transcript preview (first 200 chars):">>
      \o Slice(text, PreviewLen) \o <<"...">>

\* the global `model` as a call leaves it: read, never rebound (lines 48, 93)
ModelReloaded(m) == WhisperModel(m)
ModelAfterUse(m) == m

\* except Exception as e: return ... (lines 73-74)
LessonExceptReraise(e) == Raised(e)
LessonExcept(e) == Returned(TranscriptionErrorMsg(e))

\* except Exception as e: return ... (lines 96-97)
VideoExcept(e) == Returned(TranscriptionErrorMsg(e))

\* except Exception as e: return ... (lines 121-122)
ListExcept(e) == Returned(<<"Error listing transcripts: ", e>>)

----------------------------------------------------------------------------
(* transcribe_lesson: lines 28-74 *)

\* lines 52-55: date_str, topic_part, filename, transcript_path
TranscriptPathFromSource(a, day) ==
    PathJoin(TRANSCRIPTS_DIR, <<a.file_path[1], ".txt">>)
TranscriptPath(a, day) ==
    LET date_str   == DateStr(day)
        topic_part == IF a.lesson_topic # <<>> THEN <<"_">> \o a.lesson_topic ELSE <<>>
        filename   == date_str \o <<"_">> \o a.student_name \o topic_part \o <<".txt">>
    IN  PathJoin(TRANSCRIPTS_DIR, filename)

\* open(transcript_path, "w"): creates the file or truncates it
OpenAppend(files, path, now) ==
    [p \in DOMAIN files \cup {path} |->
        IF p = path
        THEN [data |-> IF p \in DOMAIN files THEN files[p].data ELSE <<>>, mtime |-> now]
        ELSE files[p]]
OpenW(files, path, now) ==
    [p \in DOMAIN files \cup {path} |->
        IF p = path THEN [data |-> <<>>, mtime |-> now] ELSE files[p]]

\* f.write(data) followed by the close that ends the with block
WriteData(files, path, data, now) ==
    [files EXCEPT ![path] = [data |-> @.data \o data, mtime |-> now]]

\* lines 42-43 and entry into the try block
LessonCall(file_path, student_name, lesson_topic) ==
    /\ phase = "serving"
    /\ pc = "idle"
    /\ calls < MaxCalls
    /\ calls' = calls + 1
    /\ args' = [tool |-> "transcribe_lesson", file_path |-> file_path,
                student_name |-> student_name, lesson_topic |-> lesson_topic]
    /\ local' = NoLocal
    /\ fsBefore' = fs
    /\ ran' = <<"exists">>
    /\ IF ~Exists(file_path)
       THEN /\ result' = Returned(FileNotFoundMsg(file_path))
            /\ failed' = "exists"
            /\ pc' = "done"
       ELSE /\ result' = NoResult
            /\ failed' = "none"
            /\ pc' = "transcribe"
    /\ UNCHANGED <<phase, model, dirs, fs, clock, today, log>>

\* lines 48-55: the model yields its segments, the text is joined, the path is named
LessonTranscribed(segs) ==
    /\ pc = "transcribe"
    /\ args.tool = "transcribe_lesson"
    /\ model' = ModelAfterUse(model)
    /\ local' = [text |-> JoinSp(segs), path |-> TranscriptPath(args, today),
                 day |-> today]
    /\ ran' = Append(ran, "transcribe")
    /\ pc' = "open"
    /\ UNCHANGED <<phase, dirs, fs, clock, today, args, failed, result, fsBefore,
                   log, calls>>

\* lines 48-49 raise: the except clause returns
LessonTranscribeFault(e) ==
    /\ pc = "transcribe"
    /\ args.tool = "transcribe_lesson"
    /\ model' = ModelAfterUse(model)
    /\ ran' = Append(ran, "transcribe")
    /\ failed' = "transcribe"
    /\ result' = LessonExcept(e)
    /\ pc' = "done"
    /\ UNCHANGED <<phase, dirs, fs, clock, today, args, local, fsBefore, log, calls>>

\* line 48 never returns: nothing in the handler ends the wait
LessonBlocked ==
    /\ pc = "transcribe"
    /\ args.tool = "transcribe_lesson"
    /\ model' = ModelAfterUse(model)
    /\ ran' = Append(ran, "transcribe")
    /\ pc' = "blocked"
    /\ UNCHANGED <<phase, dirs, fs, clock, today, args, local, failed, result,
                   fsBefore, log, calls>>

\* line 58: open(transcript_path, "w") succeeds
LessonOpenOk ==
    /\ pc = "open"
    /\ Parent(local.path) \in dirs
    /\ fs' = OpenW(fs, local.path, clock)
    /\ clock' = clock + 1
    /\ ran' = Append(ran, "write")
    /\ pc' = "write"
    /\ UNCHANGED <<phase, model, dirs, today, args, local, failed, result,
                   fsBefore, log, calls>>

\* line 58 raises (always when the parent directory is missing)
LessonOpenFault(e) ==
    /\ pc = "open"
    /\ ran' = Append(ran, "write")
    /\ failed' = "write"
    /\ result' = LessonExcept(e)
    /\ pc' = "done"
    /\ UNCHANGED <<phase, model, dirs, fs, clock, today, args, local, fsBefore,
                   log, calls>>

\* lines 59-71: the text is written, the file closed, the message returned
LessonWriteOk ==
    /\ pc = "write"
    /\ fs' = WriteData(fs, local.path, local.text, clock)
    /\ clock' = clock + 1
    /\ ran' = Append(ran, "report")
    /\ result' = Returned(SuccessMsg(args, local.path, local.text))
    /\ log' = Append(log, [file_path |-> args.file_path,
                           student_name |-> args.student_name,
                           lesson_topic |-> args.lesson_topic,
                           day |-> local.day, path |-> local.path,
                           text |-> local.text])
    /\ pc' = "done"
    /\ UNCHANGED <<phase, model, dirs, today, args, local, failed, fsBefore, calls>>

\* line 59 or the close raises after part of the text reached the file
LessonWriteFault(e, part) ==
    /\ pc = "write"
    /\ part \in ProperPrefixes(local.text)
    /\ fs' = WriteData(fs, local.path, part, clock)
    /\ clock' = clock + 1
    /\ failed' = "write"
    /\ result' = LessonExcept(e)
    /\ pc' = "done"
    /\ UNCHANGED <<phase, model, dirs, today, args, local, ran, fsBefore, log, calls>>

----------------------------------------------------------------------------
(* transcribe_video: lines 78-97 *)

\* lines 89-90 and entry into the try block
VideoCall(file_path) ==
    /\ phase = "serving"
    /\ pc = "idle"
    /\ calls < MaxCalls
    /\ calls' = calls + 1
    /\ args' = [tool |-> "transcribe_video", file_path |-> file_path]
    /\ local' = NoLocal
    /\ fsBefore' = fs
    /\ ran' = <<>>
    /\ failed' = "none"
    /\ IF ~Exists(file_path)
       THEN /\ result' = Returned(FileNotFoundMsg(file_path))
            /\ pc' = "done"
       ELSE /\ result' = NoResult
            /\ pc' = "transcribe"
    /\ UNCHANGED <<phase, model, dirs, fs, clock, today, log>>

\* lines 93-95
VideoTranscribed(segs) ==
    /\ pc = "transcribe"
    /\ args.tool = "transcribe_video"
    /\ model' = ModelAfterUse(model)
    /\ result' = Returned(JoinSp(segs))
    /\ pc' = "done"
    /\ UNCHANGED <<phase, dirs, fs, clock, today, args, local, ran, failed,
                   fsBefore, log, calls>>

\* lines 93-95 raise: the except clause returns
VideoTranscribeFault(e) ==
    /\ pc = "transcribe"
    /\ args.tool = "transcribe_video"
    /\ model' = ModelAfterUse(model)
    /\ result' = VideoExcept(e)
    /\ pc' = "done"
    /\ UNCHANGED <<phase, dirs, fs, clock, today, args, local, ran, failed,
                   fsBefore, log, calls>>

\* line 93 never returns: nothing in the handler ends the wait
VideoBlocked ==
    /\ pc = "transcribe"
    /\ args.tool = "transcribe_video"
    /\ model' = ModelAfterUse(model)
    /\ pc' = "blocked"
    /\ UNCHANGED <<phase, dirs, fs, clock, today, args, local, ran, failed, result,
                   fsBefore, log, calls>>

----------------------------------------------------------------------------
(* list_transcripts: lines 101-122 *)

\* TRANSCRIPTS_DIR.glob("*.txt"): the entries of the directory itself named *.txt
Glob(files) ==
    { p \in DOMAIN files : Parent(p) = TRANSCRIPTS_DIR /\ p[Len(p)] = ".txt" }

\* sorted(..., key=os.path.getmtime, reverse=True)
RECURSIVE SortedByMtimeDesc(_, _)
SortedByMtimeDesc(S, files) ==
    IF S = {} THEN <<>>
    ELSE LET newest == CHOOSE p \in S : \A q \in S : files[q].mtime <= files[p].mtime
         IN  <<newest>> \o SortedByMtimeDesc(S \ {newest}, files)

\* transcript_files[:10]
Shown(sorted) == Slice(sorted, ListLimit)

\* lines 114-117: one line per file shown
ListingLines(shown, files) ==
    [i \in 1..Len(shown) |-> [name |-> Name(shown[i]), modified |-> files[shown[i]].mtime]]

\* lines 108-119
ListCall ==
    /\ phase = "serving"
    /\ pc = "idle"
    /\ calls < MaxCalls
    /\ calls' = calls + 1
    /\ args' = [tool |-> "list_transcripts"]
    /\ local' = NoLocal
    /\ fsBefore' = fs
    /\ ran' = <<>>
    /\ failed' = "none"
    /\ LET transcript_files == SortedByMtimeDesc(Glob(fs), fs)
       IN  result' = IF transcript_files = <<>>
                     THEN Returned(<<"No transcript files found in the transcripts directory.">>)
                     ELSE Returned(<<"Recent transcript files:",
                                     ListingLines(Shown(transcript_files), fs)>>)
    /\ pc' = "done"
    /\ UNCHANGED <<phase, model, dirs, fs, clock, today, log>>

\* os.path.getmtime raises on one of the files: the except clause returns
ListFault(e) ==
    /\ phase = "serving"
    /\ pc = "idle"
    /\ calls < MaxCalls
    /\ Glob(fs) # {}
    /\ calls' = calls + 1
    /\ args' = [tool |-> "list_transcripts"]
    /\ local' = NoLocal
    /\ fsBefore' = fs
    /\ ran' = <<>>
    /\ failed' = "none"
    /\ result' = ListExcept(e)
    /\ pc' = "done"
    /\ UNCHANGED <<phase, model, dirs, fs, clock, today, log>>

----------------------------------------------------------------------------
(* The server *)

\* the value goes back to the client and the server waits for the next request
Respond ==
    /\ pc = "done"
    /\ pc' = "idle"
    /\ args' = NoArgs
    /\ local' = NoLocal
    /\ ran' = <<>>
    /\ failed' = "none"
    /\ result' = NoResult
    /\ fsBefore' = fs
    /\ UNCHANGED <<phase, model, dirs, fs, clock, today, log, calls>>

Next ==
    \/ LoadModel
    \/ MkDir
    \/ Run
    \/ Tick
    \/ \E f \in MediaPaths, l \in Lessons : LessonCall(f, l[1], l[2])
    \/ \E segs \in SegmentLists : LessonTranscribed(segs)
    \/ \E e \in Faults : LessonTranscribeFault(e)
    \/ LessonBlocked
    \/ LessonOpenOk
    \/ \E e \in Faults : LessonOpenFault(e)
    \/ LessonWriteOk
    \/ \E e \in Faults, part \in ProperPrefixes(local.text) : LessonWriteFault(e, part)
    \/ \E f \in MediaPaths : VideoCall(f)
    \/ \E segs \in SegmentLists : VideoTranscribed(segs)
    \/ \E e \in Faults : VideoTranscribeFault(e)
    \/ VideoBlocked
    \/ ListCall
    \/ \E e \in Faults : ListFault(e)
    \/ Respond

Spec == Init /\ [][Next]_vars

\* a handler that can take its next step takes it; a blocked one has none
FairSpec == Spec /\ WF_vars(Next)

----------------------------------------------------------------------------
(* Vocabulary of the properties *)

\* the stages of transcribe_lesson, in the order of lines 42, 48, 58 and 61
StageOrder == <<"exists", "transcribe", "write", "report">>

IsLesson == args.tool = "transcribe_lesson"
IsVideo  == args.tool = "transcribe_video"
IsList   == args.tool = "list_transcripts"

LessonDone == pc = "done" /\ IsLesson

\* the stage a returned message names as the one that ended the call
StageNamed(value) ==
    IF value[1] = "Error: File not found at " THEN "exists"
    ELSE IF value[1] = "Error during transcription: " THEN "transcribe"
    ELSE "report"

IsSuccess(r) == r.kind = "returned" /\ r.value[1] = "Transcription complete!"

\* the path a success message reports after "Saved to: "
ReportedPath(value) ==
    LET stop == CHOOSE i \in 1..Len(value) : value[i] = "Student: "
    IN  SubSeq(value, 3, stop - 1)

SameLesson(a, b) ==
    /\ a.day = b.day
    /\ a.student_name = b.student_name
    /\ a.lesson_topic = b.lesson_topic

Saves == 1..Len(log)

----------------------------------------------------------------------------
(* C1: the stages of transcribe_lesson run in the order exists, transcribe, *)
(* write, report; once a stage fails no later stage runs, and the returned  *)
(* message names the stage that failed.                                     *)
(* The code returns "Error during transcription: ..." for a fault of the    *)
(* write stage too, so the message names the transcribe stage there.        *)
C1_FailFastNamesFailedStage ==
    IsLesson =>
        /\ ran = SubSeq(StageOrder, 1, Len(ran))
        /\ failed # "none" =>
              /\ pc = "done"
              /\ ran[Len(ran)] = failed
              /\ result.kind = "returned"
              /\ StageNamed(result.value) = failed

(* C2: transcribe_lesson returns the success message only when the input    *)
(* file existed, every stage ran without a fault, and the file at the       *)
(* reported path exists and holds exactly this call's transcript text.      *)
C2_SuccessOnlyWhenSaved ==
    (LessonDone /\ IsSuccess(result)) =>
        /\ Exists(args.file_path)
        /\ failed = "none"
        /\ ran = StageOrder
        /\ ReportedPath(result.value) \in DOMAIN fs
        /\ fs[ReportedPath(result.value)].data = local.text
        /\ \E segs \in SegmentLists : local.text = JoinSp(segs)

\* a success that replaced a transcript saved earlier at the same path
C2_Witness ==
    /\ LessonDone
    /\ IsSuccess(result)
    /\ ReportedPath(result.value) \in DOMAIN fsBefore
    /\ fsBefore[ReportedPath(result.value)].data # local.text

(* C3: every call that entered the transcription eventually returns, even   *)
(* when the speech-to-text call never completes on its own.                 *)
(* The handlers pass no timeout and nothing ends a blocked call.            *)
C3_EveryCallReturns == (pc = "transcribe") ~> (pc = "done")

(* C4: the model is loaded exactly once, before any tool is served, and     *)
(* after any sequence of tool calls it is still that handle.                *)
C4_ModelLoadedOnce ==
    /\ phase = "boot" => model.loads = 0
    /\ phase # "boot" => model = [handle |-> "medium-cpu-int8", loads |-> 1]
    /\ (calls > 0 \/ pc # "idle") => phase = "serving"

\* the last call allowed has returned, after a save and a call that failed
C4_Witness ==
    /\ calls = MaxCalls
    /\ pc = "done"
    /\ log # <<>>
    /\ result.kind = "returned"
    /\ ~IsSuccess(result)

C6_NoFaultPropagates ==
    pc = "done" =>
        /\ result.kind = "returned"
        /\ phase = "serving"
        /\ (IsLesson /\ failed # "none") =>
              result.value[1] \in {"Error: File not found at ",
                                   "Error during transcription: "}
        /\ ((IsLesson \/ IsVideo) /\ ~Exists(args.file_path)) =>
              result.value = <<"Error: File not found at ">> \o args.file_path

\* the file system failed in the middle of the write
C6_Witness ==
    /\ LessonDone
    /\ failed = "write"
    /\ fs # fsBefore

(* C7: list_transcripts lists every .txt file of the transcripts directory  *)
(* and answers "No transcript files found" exactly when there is none.      *)
(* The code shows only the ten most recently modified files.                *)
C7_ListsEveryTranscript ==
    (pc = "done" /\ IsList /\ result.kind = "returned") =>
        /\ result.value[1] = "No transcript files found in the transcripts directory."
              <=> Glob(fs) = {}
        /\ result.value[1] = "Recent transcript files:" =>
              \A p \in Glob(fs) :
                  \E i \in 1..Len(result.value[2]) : result.value[2][i].name = Name(p)

(* C8: when transcribe_lesson returns an error the files of the transcripts *)
(* directory are exactly as they were before the call.                      *)
(* open(..., "w") has created or truncated the file before a write fault.   *)
C8_ErrorLeavesFilesUntouched ==
    (LessonDone /\ failed # "none") => fs = fsBefore

(* C9: the transcript path is an injective function of (day, student_name,  *)
(* lesson_topic): two saves at the same path are saves of the same lesson,  *)
(* and a call opens for writing only a path no other lesson was saved at.   *)
(* "A_B" without a topic and "A" with the topic "B" share one file name.    *)
C9_DistinctLessonsDistinctFiles ==
    /\ \A i, j \in Saves : log[i].path = log[j].path => SameLesson(log[i], log[j])
    /\ (IsLesson /\ pc = "write") =>
          \A i \in Saves :
              log[i].path = local.path =>
                  SameLesson(log[i], [day |-> local.day,
                                      student_name |-> args.student_name,
                                      lesson_topic |-> args.lesson_topic])

====
